---- MODULE Spec2Model ----
(***************************************************************************)
(* Skin2Solid (src/skin2solid.py): a Blender add-on that copies the        *)
(* skinned meshes of a source collection into a working collection,        *)
(* separates every copy by vertex group, parents the pieces to the bones   *)
(* of a rig and bakes the motion to object keyframes.                      *)
(*                                                                         *)
(* Names are sequences of one-character strings.  Weights and the weight   *)
(* threshold are integer levels (only their order is used by the code).    *)
(* bpy.data.objects / meshes / collections / armatures are functions from  *)
(* identifiers to records; Python's None is the value None.                *)
(***************************************************************************)
EXTENDS Integers, Sequences, FiniteSets, TLC

\* ------------------------------------------------------------- bounds
MaxVerts == 1          \* vertices of a drawn mesh
MaxGroups == 2         \* vertex groups of a drawn mesh
MaxThreshold == 1      \* drawn weight thresholds 1..MaxThreshold
MaxCollections == 2    \* collections in bpy.data.collections (source + runs)
MaxSepNameLen == 3     \* the Separate command is tried on names up to this length
MaxObjects == 7        \* the Separate command stops growing bpy.data.objects here
MaxNameLen == 2        \* drawn object / group names (naming specification)
MaxSuffixLen == 2      \* drawn name suffixes (naming specification)

\* ------------------------------------------------- program constants
None == 0                        \* Python's None; identifiers start at 1
NoParent == [object |-> 0, bone |-> <<>>]
DefaultThreshold == 3            \* weight_threshold default 0.3, in tenths
DefaultSuffix == <<"_", "S">>    \* name_suffix default "_Solid", shortened
DefaultArmature == "Armature"    \* the name looked up by set_rig_to_rest_pose
IterModes == {"next", "skip", "stop"}

VARIABLES
    settings,      \* bpy.context.scene.skin2solid_settings
    objects,       \* bpy.data.objects: id -> object record
    meshes,        \* bpy.data.meshes: id -> [name, verts, faces]
    collections,   \* bpy.data.collections: id -> [name, objects]
    armatures,     \* bpy.data.armatures: name -> [pose_position, bones]
    active,        \* bpy.context.view_layer.objects.active
    selected,      \* the selected objects
    keyframes,     \* objects holding baked transform keyframes
    pc,            \* position of the running prepare_objects call
    it,            \* position of its loop over the working collection
    iter,          \* how this build's collection iterators survive a removal
    status,        \* what the last command returned
    lastSeparated  \* input and products of the last separate call

vars == <<settings, objects, meshes, collections, armatures, active, selected,
          keyframes, pc, it, iter, status, lastSeparated>>

\* ------------------------------------------------------------ strings
Char == {"a", "_"}

IsPrefixAt(s, i, p) ==
    /\ i + Len(p) - 1 <= Len(s)
    /\ \A k \in 1..Len(p) : s[i + k - 1] = p[k]

RECURSIVE ReplaceFrom(_, _, _, _)
ReplaceFrom(s, i, old, new) ==
    IF i > Len(s) THEN <<>>
    ELSE IF IsPrefixAt(s, i, old)
         THEN new \o ReplaceFrom(s, i + Len(old), old, new)
         ELSE <<s[i]>> \o ReplaceFrom(s, i + 1, old, new)

RECURSIVE Interleave(_, _, _)
Interleave(s, i, new) ==
    IF i > Len(s) THEN new
    ELSE new \o <<s[i]>> \o Interleave(s, i + 1, new)

\* Python's str.replace(old, new): leftmost non-overlapping occurrences.
str_replace(s, old, new) ==
    IF old = <<>> THEN Interleave(s, 1, new) ELSE ReplaceFrom(s, 1, old, new)

EndsWith(s, p) == Len(p) <= Len(s) /\ IsPrefixAt(s, Len(s) - Len(p) + 1, p)

\* f"{mesh_obj.name}_{group.name}".replace(suffix, "") + suffix
SeparatedName(name, group, suffix) ==
    str_replace(name \o <<"_">> \o group, suffix, <<>>) \o suffix

\* obj.name + settings.name_suffix
WorkingName(name, suffix) == name \o suffix

\* ------------------------------------------------------------ helpers
Range(s) == {s[i] : i \in 1..Len(s)}

NewId(dom) == CHOOSE n \in 1..(Cardinality(dom) + 1) : n \notin dom

IndexOf(s, x) == CHOOSE i \in 1..Len(s) : s[i] = x

RemoveAt(s, i) == SubSeq(s, 1, i - 1) \o SubSeq(s, i + 1, Len(s))

Without(s, x) == SelectSeq(s, LAMBDA y : y # x)

\* ------------------------------------------------------ the bpy world
World ==
    [settings |-> settings, objects |-> objects, meshes |-> meshes,
     collections |-> collections, armatures |-> armatures, active |-> active,
     selected |-> selected, keyframes |-> keyframes]

Apply(w) ==
    /\ settings' = w.settings
    /\ objects' = w.objects
    /\ meshes' = w.meshes
    /\ collections' = w.collections
    /\ armatures' = w.armatures
    /\ active' = w.active
    /\ selected' = w.selected
    /\ keyframes' = w.keyframes

world_vars == <<settings, objects, meshes, collections, armatures, active,
                selected, keyframes>>

\* Faulty variant: the hook forgets to reset the flag.
update_property_noop(s) == s

\* The update hook of the three pointer properties.
update_property(s) == [s EXCEPT !.is_objects_prepared = FALSE]

\* Faulty variant: the source-collection property is declared without update=.
AssignOriginal_no_hook(s, c) == [s EXCEPT !.objs_collection_original = c]

\* Assigning a pointer property runs its update hook.
AssignOriginal(s, c) == update_property([s EXCEPT !.objs_collection_original = c])
AssignCreated(s, c) == update_property([s EXCEPT !.objs_collection_created = c])
AssignRig(s, r) == update_property([s EXCEPT !.rig = r])

\* Faulty variant: check_preparation is ignored.
verify_operator_no_preparation(s, check_preparation) ==
    IF s.objs_collection_original = None THEN FALSE
    ELSE IF s.rig = None THEN FALSE
    ELSE TRUE

\* Faulty variant: the rig is not checked.
verify_operator_no_rig(s, check_preparation) ==
    IF s.objs_collection_original = None THEN FALSE
    ELSE IF check_preparation /\ ~s.is_objects_prepared THEN FALSE
    ELSE TRUE

verify_operator(s, check_preparation) ==
    IF s.objs_collection_original = None THEN FALSE
    ELSE IF s.rig = None THEN FALSE
    ELSE IF check_preparation /\ ~s.is_objects_prepared THEN FALSE
    ELSE TRUE

\* bpy.ops.object.mode_set polls for an active object.
ModeSetPoll(w) == w.active # None

\* `for x in s: if x in rem: s.remove(x)' on a bpy collection.  Removing the
\* element the iterator stands on frees the link it reads its successor
\* from: the iterator goes on with the true successor ("next"), with the
\* element after it as a position-based iterator does ("skip"), or ends
\* ("stop").
RECURSIVE IterRemove(_, _, _, _)
IterRemove(s, i, rem, mode) ==
    IF i > Len(s) THEN s
    ELSE IF s[i] \notin rem THEN IterRemove(s, i + 1, rem, mode)
    ELSE LET s2 == RemoveAt(s, i) IN
         CASE mode = "next" -> IterRemove(s2, i, rem, mode)
           [] mode = "skip" -> IterRemove(s2, i + 1, rem, mode)
           [] OTHER -> s2

should_object_be_processed(w, o) ==
    IF w.settings.rig = None THEN FALSE
    ELSE IF w.objects[o].type # "MESH" THEN FALSE
    ELSE IF Len(w.objects[o].vertex_groups) = 0 THEN FALSE
    ELSE \E k \in 1..Len(w.objects[o].modifiers) :
            /\ w.objects[o].modifiers[k].type = "ARMATURE"
            /\ w.objects[o].modifiers[k].object = w.settings.rig

\* Faulty variant: obj.copy() alone, the duplicate shares the mesh of its source.
CopyObject_shared_mesh(w, o, d, m) ==
    [w EXCEPT !.objects = (d :> w.objects[o]) @@ w.objects]

\* obj.copy() followed by duplicate.data = obj.data.copy(): a new object
\* d with its own mesh m.
CopyObject(w, o, d, m) ==
    [w EXCEPT !.objects = (d :> [w.objects[o] EXCEPT !.data = m]) @@ w.objects,
              !.meshes = (m :> w.meshes[w.objects[o].data]) @@ w.meshes]

Link(w, c, o) ==
    [w EXCEPT !.collections[c].objects = Append(w.collections[c].objects, o)]

create_new_collection(w, c, name) ==
    [w EXCEPT !.collections = (c :> [name |-> name, objects |-> <<>>]) @@ w.collections]

RECURSIVE CopyLoop(_, _, _, _)
CopyLoop(w, src, i, c) ==
    IF i > Len(w.collections[src].objects) THEN w
    ELSE LET o == w.collections[src].objects[i] IN
         IF ~should_object_be_processed(w, o) THEN CopyLoop(w, src, i + 1, c)
         ELSE LET d == NewId(DOMAIN w.objects)
                  m == NewId(DOMAIN w.meshes)
                  sfx == w.settings.name_suffix
                  w1 == CopyObject([w EXCEPT !.active = o], o, d, m)
                  w2 == [w1 EXCEPT
                           !.objects[d].name = WorkingName(w.objects[o].name, sfx),
                           !.meshes[w1.objects[d].data].name =
                               WorkingName(w.meshes[w.objects[o].data].name, sfx)]
              IN CopyLoop(Link(w2, c, d), src, i + 1, c)

create_working_collection(w) ==
    LET src == w.settings.objs_collection_original
        c == NewId(DOMAIN w.collections)
        w1 == create_new_collection(w, c,
                  WorkingName(w.collections[src].name, w.settings.name_suffix))
        w2 == CopyLoop(w1, src, 1, c)
    IN IF src = None THEN w
       ELSE [w2 EXCEPT !.settings = AssignCreated(w2.settings, c)]

\* ----------------------------------- separate_mesh_by_vertex_groups
\* Faulty variant: a weight equal to the threshold is deleted too.
ToDelete_le(groups_for_vertex, gindex, threshold) ==
    \/ {e \in groups_for_vertex : e.group = gindex} = {}
    \/ \E e \in groups_for_vertex : e.group = gindex /\ e.weight <= threshold

\* Faulty variant: a vertex without an entry for the group is not deleted.
ToDelete_keep_absent(groups_for_vertex, gindex, threshold) ==
    \E e \in groups_for_vertex : e.group = gindex /\ e.weight < threshold

\* Lines 56-64: the vertex is deleted when it has no entry for the group,
\* or has one whose weight is below the threshold.
ToDelete(groups_for_vertex, gindex, threshold) ==
    \/ {e \in groups_for_vertex : e.group = gindex} = {}
    \/ \E e \in groups_for_vertex : e.group = gindex /\ e.weight < threshold

\* bmesh.ops.delete(bm, geom=to_delete, context='VERTS') and bm.to_mesh:
\* the marked vertices go, and the faces that use one of them.
DeleteVerts(mesh, del) ==
    LET gone == {mesh.verts[i].co : i \in del}
    IN [mesh EXCEPT !.verts = SelectSeq(mesh.verts, LAMBDA v : v.co \notin gone),
                    !.faces = {f \in mesh.faces : f \cap gone = {}}]

\* vertex_groups.remove drops the group's weights and renumbers the rest.
Reindex(mesh, old, new) ==
    [mesh EXCEPT !.verts =
        [i \in 1..Len(mesh.verts) |->
            [mesh.verts[i] EXCEPT !.groups =
                {[group |-> IndexOf(new, old[e.group + 1]) - 1, weight |-> e.weight] :
                    e \in {x \in mesh.verts[i].groups :
                              /\ x.group + 1 \in 1..Len(old)
                              /\ old[x.group + 1] \in Range(new)}}]]]

\* Lines 77-84 on duplicate d for the group named g.
KeepOnlyGroup(w, d, g, mode) ==
    LET existing == w.objects[d].vertex_groups
        m == w.objects[d].data
        left == IterRemove(existing, 1, Range(existing) \ {g}, mode)
    IN IF g \in Range(existing)
       THEN [w EXCEPT !.objects[d].vertex_groups = left,
                      !.meshes[m] = Reindex(w.meshes[m], existing, left)]
       ELSE [w EXCEPT !.objects[d].vertex_groups = Append(existing, g)]

\* bpy.data.objects.remove(o)
RemoveObject(w, o) ==
    [w EXCEPT !.objects = [x \in DOMAIN w.objects \ {o} |-> w.objects[x]],
              !.collections = [c \in DOMAIN w.collections |->
                  [w.collections[c] EXCEPT !.objects = Without(w.collections[c].objects, o)]],
              !.active = IF w.active = o THEN None ELSE w.active,
              !.selected = w.selected \ {o},
              !.keyframes = w.keyframes \ {o}]

\* One pass of the loop of lines 41-84, for the a-th vertex group.
SeparateGroup(w, mesh_obj, vertex_group_data, a, mode, d, m) ==
    LET c == w.settings.objs_collection_created
        g == w.objects[mesh_obj].vertex_groups[a]
        w1 == Link(CopyObject(w, mesh_obj, d, m), c, d)
        dm == w1.objects[d].data
        to_delete == {i \in 1..Len(w1.meshes[dm].verts) :
                         ToDelete(vertex_group_data[i], a - 1,
                                  w.settings.weight_threshold)}
        name == SeparatedName(w.objects[mesh_obj].name, g, w.settings.name_suffix)
        w2 == [w1 EXCEPT !.meshes[dm] =
                   [DeleteVerts(w1.meshes[dm], to_delete) EXCEPT !.name = name],
                         !.objects[d].name = name]
    IN KeepOnlyGroup(w2, d, g, mode)

RECURSIVE SeparateLoop(_, _, _, _, _, _)
SeparateLoop(w, mesh_obj, vertex_group_data, a, mode, out) ==
    IF a > Len(w.objects[mesh_obj].vertex_groups) THEN [w |-> w, out |-> out]
    ELSE LET d == NewId(DOMAIN w.objects)
             m == NewId(DOMAIN w.meshes)
         IN SeparateLoop(SeparateGroup(w, mesh_obj, vertex_group_data, a, mode, d, m),
                         mesh_obj, vertex_group_data, a + 1, mode,
                         Append(out, [group |-> w.objects[mesh_obj].vertex_groups[a],
                                      index |-> a - 1, obj |-> d]))

NoSeparation == [src |-> <<>>, groups |-> <<>>, threshold |-> 0, out |-> <<>>]

\* The whole function.  exc: it ended in an exception (mesh_obj is None at
\* line 27, or is not linked in the working collection at line 87).
separate_mesh_by_vertex_groups(w, mesh_obj, mode) ==
    IF mesh_obj = None THEN [w |-> w, exc |-> TRUE, sep |-> NoSeparation]
    ELSE IF w.objects[mesh_obj].type # "MESH"
         THEN [w |-> w, exc |-> FALSE, sep |-> NoSeparation]
    ELSE IF w.settings.objs_collection_created = None
         THEN [w |-> w, exc |-> FALSE, sep |-> NoSeparation]
    ELSE LET c == w.settings.objs_collection_created
             verts == w.meshes[w.objects[mesh_obj].data].verts
             vertex_group_data == [i \in 1..Len(verts) |-> verts[i].groups]
             r == SeparateLoop(w, mesh_obj, vertex_group_data, 1, mode, <<>>)
             sep == [src |-> verts, groups |-> w.objects[mesh_obj].vertex_groups,
                     threshold |-> w.settings.weight_threshold, out |-> r.out]
         IN IF mesh_obj \notin Range(r.w.collections[c].objects)
            THEN [w |-> r.w, exc |-> TRUE, sep |-> sep]
            ELSE [w |-> RemoveObject(r.w, mesh_obj), exc |-> FALSE, sep |-> sep]

\* ------------------------------------------------ the other prepare steps
\* exc: the rig is an armature and bpy.data.armatures has no "Armature".
set_rig_to_rest_pose(w, rig) ==
    IF w.objects[rig].type # "ARMATURE" THEN [w |-> w, exc |-> FALSE]
    ELSE IF DefaultArmature \notin DOMAIN w.armatures THEN [w |-> w, exc |-> TRUE]
    ELSE [w |-> [w EXCEPT !.armatures[DefaultArmature].pose_position = "REST"],
          exc |-> FALSE]

RECURSIVE ClearLoop(_, _, _, _)
ClearLoop(w, c, i, mode) ==
    IF i > Len(w.collections[c].objects) THEN w
    ELSE LET o == w.collections[c].objects[i] IN
         IF w.objects[o].type # "MESH" THEN ClearLoop(w, c, i + 1, mode)
         ELSE ClearLoop([w EXCEPT !.objects[o].modifiers =
                            IterRemove(w.objects[o].modifiers, 1,
                                       {md \in Range(w.objects[o].modifiers) :
                                            md.type = "ARMATURE"}, mode)],
                        c, i + 1, mode)

clear_object_modifiers(w, mode) ==
    IF w.settings.objs_collection_created = None THEN w
    ELSE ClearLoop(w, w.settings.objs_collection_created, 1, mode)

RECURSIVE OriginLoop(_, _, _)
OriginLoop(w, c, i) ==
    IF i > Len(w.collections[c].objects) THEN w
    ELSE LET o == w.collections[c].objects[i] IN
         IF w.objects[o].type # "MESH" THEN OriginLoop(w, c, i + 1)
         ELSE OriginLoop([w EXCEPT !.selected = {o}, !.active = o,
                                   !.objects[o].origin = "CENTER_OF_VOLUME"],
                         c, i + 1)

set_object_origins_to_center(w) ==
    IF w.settings.objs_collection_created = None THEN [w |-> w, exc |-> FALSE]
    ELSE IF ~ModeSetPoll(w) THEN [w |-> w, exc |-> TRUE]
    ELSE [w |-> OriginLoop(w, w.settings.objs_collection_created, 1), exc |-> FALSE]

\* rig.pose.bones: None.bones for an object that is no armature.
HasPose(w, rig) == w.objects[rig].type = "ARMATURE"
PoseBones(w, rig) == w.armatures[w.objects[rig].data].bones

\* Lines 154-174 for one object: it ends up parented to the bone.
ParentToBone(w, o, rig, bone_name) ==
    [w EXCEPT !.selected = {o, rig}, !.active = rig,
              !.objects[o].parent = [object |-> rig, bone |-> bone_name]]

RECURSIVE ParentLoop(_, _, _, _)
ParentLoop(w, c, i, rig) ==
    IF i > Len(w.collections[c].objects) THEN [w |-> w, exc |-> FALSE]
    ELSE LET o == w.collections[c].objects[i] IN
         IF w.objects[o].type # "MESH" THEN ParentLoop(w, c, i + 1, rig)
         ELSE IF Len(w.objects[o].vertex_groups) = 0 THEN ParentLoop(w, c, i + 1, rig)
         ELSE IF ~HasPose(w, rig) THEN [w |-> w, exc |-> TRUE]
         ELSE IF w.objects[o].vertex_groups[1] \notin PoseBones(w, rig)
              THEN ParentLoop(w, c, i + 1, rig)
         ELSE IF ~ModeSetPoll(w) THEN [w |-> w, exc |-> TRUE]
         ELSE ParentLoop(ParentToBone(w, o, rig, w.objects[o].vertex_groups[1]),
                         c, i + 1, rig)

parent_objects_to_corresponding_bones(w) ==
    LET rig == w.settings.rig
        r == ParentLoop(w, w.settings.objs_collection_created, 1, rig)
    IN IF r.exc THEN r
       ELSE IF ~ModeSetPoll(r.w) THEN [w |-> r.w, exc |-> TRUE]
       ELSE IF w.objects[rig].type # "ARMATURE" THEN [w |-> r.w, exc |-> TRUE]
       ELSE [w |-> [r.w EXCEPT !.armatures[w.objects[rig].data].pose_position = "POSE"],
             exc |-> FALSE]

\* --------------------------------------------------------- bake_animation
MeshObjects(w, c) == {o \in Range(w.collections[c].objects) : w.objects[o].type = "MESH"}

RECURSIVE LastMesh(_, _, _, _)
LastMesh(w, c, i, last) ==
    IF i > Len(w.collections[c].objects) THEN last
    ELSE LET o == w.collections[c].objects[i] IN
         LastMesh(w, c, i + 1, IF w.objects[o].type = "MESH" THEN o ELSE last)

\* bpy.ops.nla.bake(only_selected, visual_keying, clear_constraints,
\* clear_parents, bake_types={'OBJECT'}): keyframes on the selected objects,
\* whose parents are cleared.
nla_bake(w) ==
    [w EXCEPT !.keyframes = w.keyframes \cup w.selected,
              !.objects = [o \in DOMAIN w.objects |->
                  IF o \in w.selected THEN [w.objects[o] EXCEPT !.parent = NoParent]
                  ELSE w.objects[o]]]

\* baked: the external bake operation was called.
bake_animation(w) ==
    LET c == w.settings.objs_collection_created
        w1 == IF w.active = None
              THEN [w EXCEPT !.active = w.collections[c].objects[1]] ELSE w
        w2 == [w1 EXCEPT !.selected = MeshObjects(w, c),
                         !.active = LastMesh(w, c, 1, w1.active)]
    IN IF c = None THEN [w |-> w, baked |-> FALSE]
       ELSE IF w.active = None /\ Len(w.collections[c].objects) = 0
            THEN [w |-> w, baked |-> FALSE]
       ELSE [w |-> nla_bake(w2), baked |-> TRUE]

\* ---------------------------------------------------------------- scenes
Letters == <<"A", "B", "C", "D", "E", "F">>
GroupName(i) == <<Letters[i]>>

DefaultSettings ==
    [objs_collection_original |-> None, objs_collection_created |-> None,
     rig |-> None, is_objects_prepared |-> FALSE,
     bake_frame_start |-> 0, bake_frame_end |-> 250,
     name_suffix |-> DefaultSuffix, weight_threshold |-> DefaultThreshold]

Obj(name, type, data, vertex_groups, modifiers) ==
    [name |-> name, type |-> type, data |-> data, vertex_groups |-> vertex_groups,
     modifiers |-> modifiers, parent |-> NoParent, origin |-> "ORIGIN"]

ArmatureModifier(rig) == [type |-> "ARMATURE", object |-> rig]
Entry(g, wt) == [group |-> g, weight |-> wt]

\* Two rigs (the armature data of the second is not named "Armature"), a
\* three-group mesh X deformed by both and an empty, the last two in
\* collection C.
SceneObjects ==
    (1 :> Obj(<<"R">>, "ARMATURE", DefaultArmature, <<>>, <<>>)) @@
    (2 :> Obj(<<"Q">>, "ARMATURE", "Armature.001", <<>>, <<>>)) @@
    (3 :> Obj(<<"X">>, "MESH", 1, <<GroupName(1), GroupName(2), GroupName(3)>>,
              <<ArmatureModifier(1), ArmatureModifier(2)>>)) @@
    (4 :> Obj(<<"E">>, "EMPTY", None, <<>>, <<>>))

SceneMeshes ==
    (1 :> [name |-> <<"X">>,
           verts |-> <<[co |-> 1, groups |-> {Entry(0, 5), Entry(1, 5)}],
                       [co |-> 2, groups |-> {Entry(2, 1)}]>>,
           faces |-> {{1, 2}}])

SceneCollections == (1 :> [name |-> <<"C">>, objects |-> <<3, 4>>])

SceneArmatures ==
    (DefaultArmature :> [pose_position |-> "POSE", bones |-> {GroupName(1), GroupName(2)}]) @@
    ("Armature.001" :> [pose_position |-> "POSE", bones |-> {GroupName(1)}])

RigChoices == {None, 1, 2, 4}

NoStatus == [cmd |-> "none", result |-> "none", baked |-> FALSE]
Status(cmd, result) == [cmd |-> cmd, result |-> result, baked |-> FALSE]

Init ==
    /\ settings = DefaultSettings
    /\ objects = SceneObjects
    /\ meshes = SceneMeshes
    /\ collections = SceneCollections
    /\ armatures = SceneArmatures
    /\ active = None
    /\ selected = {}
    /\ keyframes = {}
    /\ pc = "idle"
    /\ it = 0
    /\ iter \in IterModes
    /\ status = NoStatus
    /\ lastSeparated = NoSeparation

\* --------------------------------------------------------------- actions
\* The user assigns a property in the panel or from a script.
SetSource(c) ==
    /\ pc = "idle"
    /\ settings' = AssignOriginal(settings, c)
    /\ UNCHANGED <<objects, meshes, collections, armatures, active, selected,
                   keyframes, pc, it, iter, status, lastSeparated>>

SetRig(r) ==
    /\ pc = "idle"
    /\ settings' = AssignRig(settings, r)
    /\ UNCHANGED <<objects, meshes, collections, armatures, active, selected,
                   keyframes, pc, it, iter, status, lastSeparated>>

SetCreated(c) ==
    /\ pc = "idle"
    /\ settings' = AssignCreated(settings, c)
    /\ UNCHANGED <<objects, meshes, collections, armatures, active, selected,
                   keyframes, pc, it, iter, status, lastSeparated>>

\* An exception leaves the operator; what it did so far stays.
Abort(w, cmd) ==
    /\ Apply(w)
    /\ pc' = "idle"
    /\ it' = 0
    /\ status' = Status(cmd, "EXCEPTION")

\* SKIN2SOLID_OT_prepare_objects.execute up to create_working_collection.
PrepareCmd ==
    /\ pc = "idle"
    /\ Cardinality(DOMAIN collections) < MaxCollections
    /\ IF ~verify_operator(settings, FALSE)
       THEN /\ status' = Status("prepare", "CANCELLED")
            /\ UNCHANGED <<world_vars, pc, it, iter, lastSeparated>>
       ELSE /\ Apply(create_working_collection(World))
            /\ pc' = "partition"
            /\ it' = 1
            /\ status' = Status("prepare", "RUNNING")
            /\ UNCHANGED <<iter, lastSeparated>>

\* Lines 304-309: one turn of the loop over the working collection, whose
\* objects separate links and unlinks under the iterator.
PartitionStep ==
    /\ pc = "partition"
    /\ LET c == settings.objs_collection_created IN
       IF it > Len(collections[c].objects)
       THEN /\ pc' = "rest"
            /\ it' = 0
            /\ UNCHANGED <<world_vars, iter, status, lastSeparated>>
       ELSE LET o == collections[c].objects[it] IN
            IF objects[o].type # "MESH" \/ Len(objects[o].vertex_groups) <= 1
            THEN /\ it' = it + 1
                 /\ UNCHANGED <<world_vars, pc, iter, status, lastSeparated>>
            ELSE LET r == separate_mesh_by_vertex_groups(World, o, iter) IN
                 /\ lastSeparated' = r.sep
                 /\ IF r.exc THEN Abort(r.w, "prepare")
                    ELSE /\ Apply(r.w)
                         /\ it' = CASE iter = "next" -> it
                                    [] iter = "skip" -> it + 1
                                    [] OTHER -> Len(r.w.collections[c].objects) + 1
                         /\ UNCHANGED <<pc, status>>
                 /\ UNCHANGED iter

RestPoseStep ==
    /\ pc = "rest"
    /\ LET r == set_rig_to_rest_pose(World, settings.rig) IN
       IF r.exc THEN Abort(r.w, "prepare")
       ELSE /\ Apply(r.w)
            /\ pc' = "clear"
            /\ UNCHANGED <<it, status>>
    /\ UNCHANGED <<iter, lastSeparated>>

ClearModifiersStep ==
    /\ pc = "clear"
    /\ Apply(clear_object_modifiers(World, iter))
    /\ pc' = "origin"
    /\ UNCHANGED <<it, iter, status, lastSeparated>>

OriginsStep ==
    /\ pc = "origin"
    /\ LET r == set_object_origins_to_center(World) IN
       IF r.exc THEN Abort(r.w, "prepare")
       ELSE /\ Apply(r.w)
            /\ pc' = "bind"
            /\ UNCHANGED <<it, status>>
    /\ UNCHANGED <<iter, lastSeparated>>

\* Lines 320-322: bind, then settings.is_objects_prepared = True.
BindStep ==
    /\ pc = "bind"
    /\ LET r == parent_objects_to_corresponding_bones(World) IN
       IF r.exc THEN Abort(r.w, "prepare")
       ELSE /\ Apply([r.w EXCEPT !.settings.is_objects_prepared = TRUE])
            /\ pc' = "idle"
            /\ status' = Status("prepare", "FINISHED")
            /\ UNCHANGED it
    /\ UNCHANGED <<iter, lastSeparated>>

\* SKIN2SOLID_OT_separate_by_vertex_groups.execute, run by the user on the
\* object o they made active (None: no active object).
SeparateCmd(o) ==
    /\ pc = "idle"
    /\ o # None =>
          /\ objects[o].type = "MESH"
          /\ Len(objects[o].name) <= MaxSepNameLen
          /\ Cardinality(DOMAIN objects) + Len(objects[o].vertex_groups) <= MaxObjects
    /\ IF ~verify_operator(settings, FALSE)
       THEN /\ status' = Status("separate", "CANCELLED")
            /\ active' = o
            /\ UNCHANGED <<settings, objects, meshes, collections, armatures,
                           selected, keyframes, pc, it, iter, lastSeparated>>
       ELSE LET r == separate_mesh_by_vertex_groups([World EXCEPT !.active = o], o, iter) IN
            /\ Apply(r.w)
            /\ lastSeparated' = r.sep
            /\ status' = Status("separate", IF r.exc THEN "EXCEPTION" ELSE "FINISHED")
            /\ UNCHANGED <<pc, it, iter>>

\* SKIN2SOLID_OT_bake_animation.execute
BakeCmd ==
    /\ pc = "idle"
    /\ IF ~verify_operator(settings, TRUE)
       THEN /\ status' = Status("bake", "CANCELLED")
            /\ UNCHANGED <<world_vars, pc, it, iter, lastSeparated>>
       ELSE LET r == bake_animation(World) IN
            /\ Apply(r.w)
            /\ status' = [cmd |-> "bake", result |-> "FINISHED", baked |-> r.baked]
            /\ UNCHANGED <<pc, it, iter, lastSeparated>>

PrepareSteps ==
    \/ PartitionStep
    \/ RestPoseStep
    \/ ClearModifiersStep
    \/ OriginsStep
    \/ BindStep

NextCommands ==
    \/ PrepareCmd
    \/ PrepareSteps
    \/ \E o \in DOMAIN objects \cup {None} : SeparateCmd(o)
    \/ BakeCmd

Next ==
    \/ NextCommands
    \/ \E c \in DOMAIN collections \cup {None} : SetSource(c)
    \/ \E r \in RigChoices : SetRig(r)
    \/ \E c \in DOMAIN collections \cup {None} : SetCreated(c)

Spec == Init /\ [][Next]_vars

\* ------------------------------------- commands alone, on a configured scene
InitCommands ==
    /\ \E c \in {None, 1}, r \in RigChoices :
          settings = [DefaultSettings EXCEPT !.objs_collection_original = c, !.rig = r]
    /\ objects = SceneObjects
    /\ meshes = SceneMeshes
    /\ collections = SceneCollections
    /\ armatures = SceneArmatures
    /\ active = None
    /\ selected = {}
    /\ keyframes = {}
    /\ pc = "idle"
    /\ it = 0
    /\ iter \in IterModes
    /\ status = NoStatus
    /\ lastSeparated = NoSeparation

SpecCommands == InitCommands /\ [][NextCommands]_vars

\* ------------------------------------------ separation of a drawn mesh
\* A drawn weight lies just below, at or just above the threshold: the code
\* only compares the two (line 62).
WeightLevels(threshold) == {threshold - 1, threshold, threshold + 1}
NoEntry == -1

\* Vertex i carries the entries of tbl[i]: group g with weight tbl[i][g],
\* no entry where tbl[i][g] = NoEntry.
DrawnVerts(nv, n, tbl) ==
    [i \in 1..nv |->
        [co |-> i,
         groups |-> {Entry(g, tbl[i][g]) : g \in {x \in 0..(n - 1) : tbl[i][x] # NoEntry}}]]

\* The state create_working_collection leaves: the drawn mesh X in the
\* source collection and its copy in the working collection.
PartitionScene(name, group_names, verts, suffix, threshold) ==
    /\ settings = [DefaultSettings EXCEPT !.objs_collection_original = 1,
                                          !.objs_collection_created = 2,
                                          !.rig = 1,
                                          !.name_suffix = suffix,
                                          !.weight_threshold = threshold]
    /\ objects =
          (1 :> Obj(<<"R">>, "ARMATURE", DefaultArmature, <<>>, <<>>)) @@
          (2 :> Obj(name, "MESH", 1, group_names, <<ArmatureModifier(1)>>)) @@
          (3 :> Obj(WorkingName(name, suffix), "MESH", 2, group_names,
                    <<ArmatureModifier(1)>>))
    /\ meshes =
          (1 :> [name |-> name, verts |-> verts, faces |-> {{verts[i].co : i \in 1..Len(verts)}}]) @@
          (2 :> [name |-> WorkingName(name, suffix), verts |-> verts,
                 faces |-> {{verts[i].co : i \in 1..Len(verts)}}])
    /\ collections =
          (1 :> [name |-> <<"C">>, objects |-> <<2>>]) @@
          (2 :> [name |-> WorkingName(<<"C">>, suffix), objects |-> <<3>>])
    /\ armatures =
          (DefaultArmature :> [pose_position |-> "POSE", bones |-> {GroupName(1)}])
    /\ active = 2
    /\ selected = {}
    /\ keyframes = {}
    /\ pc = "idle"
    /\ it = 0
    /\ iter \in IterModes
    /\ status = NoStatus
    /\ lastSeparated = NoSeparation

InitPartition ==
    \E nv \in 1..MaxVerts, n \in 1..MaxGroups, threshold \in 1..MaxThreshold :
    \E tbl \in [1..nv -> [0..(n - 1) -> WeightLevels(threshold) \cup {NoEntry}]] :
        PartitionScene(<<"X">>, [k \in 1..n |-> GroupName(k)],
                       DrawnVerts(nv, n, tbl), DefaultSuffix, threshold)

NextPartition == \E o \in DOMAIN objects : SeparateCmd(o)

SpecPartition == InitPartition /\ [][NextPartition]_vars

\* --------------------------------------------- naming of drawn names
Strings(max) == UNION {[1..k -> Char] : k \in 1..max}

\* A two-group mesh of a drawn name, a first group of a drawn name and a
\* drawn suffix, in the source collection of a configured scene.
InitNaming ==
    \E name \in Strings(MaxNameLen), g \in Strings(MaxNameLen),
       suffix \in Strings(MaxSuffixLen) :
        /\ settings = [DefaultSettings EXCEPT !.objs_collection_original = 1,
                                              !.rig = 1,
                                              !.name_suffix = suffix]
        /\ objects =
              (1 :> Obj(<<"R">>, "ARMATURE", DefaultArmature, <<>>, <<>>)) @@
              (2 :> Obj(name, "MESH", 1, <<g, GroupName(2)>>, <<ArmatureModifier(1)>>))
        /\ meshes =
              (1 :> [name |-> name,
                     verts |-> <<[co |-> 1, groups |-> {Entry(0, 5), Entry(1, 1)}]>>,
                     faces |-> {{1}}])
        /\ collections = (1 :> [name |-> <<"C">>, objects |-> <<2>>])
        /\ armatures =
              (DefaultArmature :> [pose_position |-> "POSE", bones |-> {g}])
        /\ active = None
        /\ selected = {}
        /\ keyframes = {}
        /\ pc = "idle"
        /\ it = 0
        /\ iter \in IterModes
        /\ status = NoStatus
        /\ lastSeparated = NoSeparation

NextNaming == PrepareCmd \/ PrepareSteps

SpecNaming == InitNaming /\ [][NextNaming]_vars

\* ================================================================ claims
Created == settings.objs_collection_created
Source == settings.objs_collection_original
Prepared == settings.is_objects_prepared

\* The vertices (by coordinate) left in the sub-mesh of a product e of the
\* last separation.
Kept(e) == {v.co : v \in Range(meshes[objects[e.obj].data].verts)}

\* Vertex i of the separated mesh had, in the weight table captured at entry,
\* an entry for group index g with a weight at or above the threshold.
Qualifies(i, g) ==
    \E en \in lastSeparated.src[i].groups :
        en.group = g /\ en.weight >= lastSeparated.threshold

SepOut == lastSeparated.out
SepVerts == 1..Len(lastSeparated.src)

\* C1. Partition completeness: after separate_mesh_by_vertex_groups there is
\* one sub-mesh per vertex group of the mesh, and a vertex is kept in the
\* sub-mesh of group b if and only if the weight table captured at entry has
\* an entry (v, b) with weight >= threshold; a vertex with no such group is
\* kept in no sub-mesh.
C1_PartitionCompleteness ==
    /\ SepOut # <<>> =>
          /\ Len(SepOut) = Len(lastSeparated.groups)
          /\ \A k \in 1..Len(SepOut) : SepOut[k].group = lastSeparated.groups[k]
    /\ \A k \in 1..Len(SepOut) : \A i \in SepVerts :
          (lastSeparated.src[i].co \in Kept(SepOut[k])) <=> Qualifies(i, SepOut[k].index)
    /\ \A i \in SepVerts :
          (\A k \in 1..Len(SepOut) : ~Qualifies(i, SepOut[k].index))
              => \A k \in 1..Len(SepOut) : lastSeparated.src[i].co \notin Kept(SepOut[k])

\* A separation kept a vertex in one sub-mesh and dropped it from another for
\* a weight below the threshold.
C1_Witness ==
    \E k, l \in 1..Len(SepOut) : \E i \in SepVerts :
        /\ lastSeparated.src[i].co \in Kept(SepOut[k])
        /\ lastSeparated.src[i].co \notin Kept(SepOut[l])
        /\ \E en \in lastSeparated.src[i].groups :
              en.group = SepOut[l].index /\ en.weight < lastSeparated.threshold

\* C2 as stated. Partition disjointness: the sub-meshes produced for two
\* distinct vertex groups of one mesh share no source vertex.
C2_Disjoint ==
    \A k, l \in 1..Len(SepOut) :
        k # l => Kept(SepOut[k]) \cap Kept(SepOut[l]) = {}

\* C2 as amended: the sub-meshes of two distinct groups share exactly the
\* vertices whose weight is at or above the threshold in both groups (so they
\* are disjoint when no vertex reaches the threshold in two groups).
C2_SharedOnlyWhenBothQualify ==
    \A k, l \in 1..Len(SepOut) : \A i \in SepVerts :
        k # l =>
            ((lastSeparated.src[i].co \in Kept(SepOut[k]) \cap Kept(SepOut[l]))
                <=> (Qualifies(i, SepOut[k].index) /\ Qualifies(i, SepOut[l].index)))

\* Two sub-mesh pairs of one separation: one sharing a vertex, and the state
\* holds a product without vertices too.
C2_Witness ==
    /\ \E k, l \in 1..Len(SepOut) : k # l /\ Kept(SepOut[k]) \cap Kept(SepOut[l]) # {}
    /\ lastSeparated.src # <<>>

EndsOnce(name, suffix) ==
    /\ EndsWith(name, suffix)
    /\ ~EndsWith(SubSeq(name, 1, Len(name) - Len(suffix)), suffix)

\* C3. Idempotent naming: every object the tool puts in the working
\* collection (working copy or per-group piece) has a name that ends with
\* exactly one occurrence of the suffix: X_Solid gives X_Solid, never
\* X_Solid_Solid.
C3_NameEndsOnce ==
    Created # None =>
        \A o \in Range(collections[Created].objects) :
            EndsOnce(objects[o].name, settings.name_suffix)

\* C4. State-machine precondition: a bake command invoked while prepared is
\* false returns the error status, does not call the bake operation and
\* leaves the settings, the working collection and every object unchanged.
C4_BakeNeedsPrepared ==
    [][(BakeCmd /\ ~Prepared) =>
          /\ status' = Status("bake", "CANCELLED")
          /\ ~status'.baked
          /\ UNCHANGED world_vars]_vars

\* A bake was rejected while a working collection with objects exists and
\* source and rig are set: only the prepared flag was missing.
C4_Witness ==
    /\ status = Status("bake", "CANCELLED")
    /\ ~Prepared
    /\ Source # None /\ settings.rig # None
    /\ Created # None /\ collections[Created].objects # <<>>

\* C5. Invalidation: when prepared is true, giving the rig or the source
\* collection reference another value makes prepared false, and the bake
\* command's check fails from then on.
C5_Invalidation ==
    [][(Prepared /\ (settings'.rig # settings.rig
                     \/ settings'.objs_collection_original # Source)) =>
          /\ ~settings'.is_objects_prepared
          /\ ~verify_operator(settings', TRUE)]_vars

\* The last command was a prepare that finished, and the rig was unset after
\* it: prepared is false again.
C5_Witness ==
    /\ status = Status("prepare", "FINISHED")
    /\ settings.rig = None
    /\ Created # None
    /\ ~Prepared

\* C6. Configuration error: a prepare command invoked while the source
\* collection or the rig is unset returns the error status and changes
\* nothing else; prepared stays false.
C6_PrepareNeedsConfiguration ==
    [][(PrepareCmd /\ (Source = None \/ settings.rig = None)) =>
          /\ status' = Status("prepare", "CANCELLED")
          /\ UNCHANGED <<world_vars, pc, it, lastSeparated>>
          /\ ~settings'.is_objects_prepared]_vars

\* A prepare was rejected with the rig unset and the source collection set.
C6_Witness ==
    /\ status = Status("prepare", "CANCELLED")
    /\ Source # None
    /\ settings.rig = None
    /\ DOMAIN collections = DOMAIN SceneCollections

ListedFields(o) ==
    [name |-> o.name, vertex_groups |-> o.vertex_groups,
     modifiers |-> o.modifiers, parent |-> o.parent]

MeshOf(objs, ms, o) ==
    IF objs[o].type = "MESH"
    THEN [verts |-> ms[objs[o].data].verts, faces |-> ms[objs[o].data].faces]
    ELSE [verts |-> <<>>, faces |-> {}]

OriginalsKept ==
    Source # None =>
        \A o \in Range(collections[Source].objects) :
            /\ o \in DOMAIN objects'
            /\ o \in Range(collections'[Source].objects)
            /\ ListedFields(objects'[o]) = ListedFields(objects[o])
            /\ MeshOf(objects', meshes', o) = MeshOf(objects, meshes, o)

OnlyWorkingEdited ==
    \A o \in DOMAIN objects :
        (\/ o \notin DOMAIN objects'
         \/ (o \in DOMAIN objects' /\ objects'[o] # objects[o])
         \/ (o \in DOMAIN objects' /\ MeshOf(objects', meshes', o) # MeshOf(objects, meshes, o)))
            => (Created # None /\ o \in Range(collections[Created].objects))

PrepareOrder ==
    {<<"idle", "partition">>, <<"partition", "rest">>, <<"rest", "clear">>,
     <<"clear", "origin">>, <<"origin", "bind">>, <<"bind", "idle">>,
     <<"rest", "idle">>, <<"origin", "idle">>, <<"partition", "idle">>}

NewlyBound(o) ==
    /\ o \in DOMAIN objects'
    /\ objects'[o].parent # NoParent
    /\ objects'[o].parent # objects[o].parent

\* C9. Rest pose before binding: the steps of a prepare run follow the order
\* materialize, partition, rest pose, remove modifiers, recenter, bind; and
\* whenever an object is parented to a bone, the pose state of the
\* configured rig is REST.
C9_RestPoseBeforeBinding ==
    [][/\ pc' # pc => <<pc, pc'>> \in PrepareOrder
       /\ \A o \in DOMAIN objects :
             NewlyBound(o) =>
                 /\ settings.rig # None
                 /\ objects[settings.rig].type = "ARMATURE"
                 /\ armatures[objects[settings.rig].data].pose_position = "REST"]_vars

PreparedImpliesReferences ==
    Prepared => (Source # None /\ settings.rig # None /\ Created # None)

\* C10. Invariant of the prepared flag: prepared implies that the source
\* collection, the rig and the working collection are set; prepared becomes
\* true only in the last step of a prepare run that completes; and a
\* completed prepare run leaves prepared true although it assigned the
\* working-collection reference.
C10_PreparedFlag ==
    /\ []PreparedImpliesReferences
    /\ [][/\ (~Prepared /\ settings'.is_objects_prepared) =>
                (pc = "bind" /\ pc' = "idle" /\ status' = Status("prepare", "FINISHED"))
          /\ (pc = "bind" /\ status' = Status("prepare", "FINISHED")) =>
                (settings'.is_objects_prepared /\ settings'.objs_collection_created # None)]_vars

\* A prepare run completed: prepared is true, with the working collection it
\* made.
C10_Witness ==
    /\ Prepared
    /\ pc = "idle"
    /\ status = Status("prepare", "FINISHED")
    /\ Created # None

====
